---- MODULE Spec2Model ----
(***************************************************************************)
(* Model of the event-drop processor (package event_drop, the second half  *)
(* of src/cmd/capabilities.go): Drop.Init compiles a configuration into a  *)
(* Matcher Set, Drop.Apply scans a batch of events, collects the indexes   *)
(* to drop and compacts the batch with shift.                              *)
(*                                                                         *)
(* Strings are one character long.  A regular-expression source is one of  *)
(* the literals "a" and "7", or "(", which regexp.Compile rejects (missing *)
(* closing parenthesis).  On one-character strings an unanchored literal   *)
(* matches exactly the equal string.                                       *)
(* A condition is a sequence of characters: " " is white space, "q" a      *)
(* valid query, "(" a query gojq.Parse rejects, "$" a query gojq.Compile   *)
(* rejects (undefined variable).                                           *)
(* Slice indexes are 0-based as in the source; sequences are 1-based.      *)
(***************************************************************************)
EXTENDS Integers, Sequences, FiniteSets, TLC

VARIABLES
    pc,       \* "new" | "ready" | "failed" | "returned" : the processor's life cycle
    cfg,      \* the configuration handed to Init
    d,        \* the Drop struct (the Matcher Set)
    ret,      \* what Init returned: "none" (not called) | "nil" | an error
    input,    \* the batch as the caller passed it to Apply (a copy, for reference)
    es,       \* the caller's slice after Apply returned (same backing array as the argument)
    toDrop,   \* the index list Apply built and passed to shift
    result,   \* the slice Apply returned
    log,      \* the lines Apply handed to d.logger
    cpc, cin, ci, ctoDrop, cres   \* per goroutine: concurrent Apply calls (SpecConc)

vars == <<pc, cfg, d, ret, input, es, toDrop, result, log, cpc, cin, ci, ctoDrop, cres>>

seqVars == <<pc, cfg, ret, input, es, toDrop, result, log>>
concVars == <<cpc, cin, ci, ctoDrop, cres>>

-----------------------------------------------------------------------------
(* Bounds *)

\* most patterns a configuration holds, all four lists together
MaxPats == 2
\* longest batch handed to Apply
MaxBatch == 3
\* longest batch handed to a concurrent Apply
MaxConcBatch == 2

-----------------------------------------------------------------------------
(* Values of the model *)

Pats == {"a", "7", "("}
Conds == {<<>>, <<" ", "q", " ">>, <<"(">>, <<"$">>}
Procs == {1, 2}

Nil == [nil |-> TRUE]
EmptyMap == [k \in {} |-> "a"]
StrVal(s) == [t |-> "string", v |-> s]
NumVal(s) == [t |-> "number", v |-> s]   \* v: the number's decimal text

Ev(tags, values) == [nil |-> FALSE, Tags |-> tags, Values |-> values]

\* The events batches are made of.
EvA == Ev("a" :> "a", EmptyMap)
EvB == Ev("b" :> "7", "a" :> NumVal("7"))
EvC == Ev(EmptyMap, "a" :> StrVal("a"))
EvD == Ev(("a" :> "7") @@ ("b" :> "a"), "a" :> StrVal("7"))
EvE == Ev("b" :> "b", "b" :> StrVal("b"))
Events == {EvA, EvB, EvC, EvD, EvE}
Slots == Events \cup {Nil}

SeqsUpTo(S, n) == UNION {[1..k -> S] : k \in 0..n}
Batches == SeqsUpTo(Slots, MaxBatch)

Sum4(l) == l[1] + l[2] + l[3] + l[4]
LenTuples == {l \in [1..4 -> 0..MaxPats] : Sum4(l) <= MaxPats}
Configs ==
    UNION {[decodable : BOOLEAN, Condition : Conds,
            TagNames : [1..l[1] -> Pats], Tags : [1..l[2] -> Pats],
            ValueNames : [1..l[3] -> Pats], Values : [1..l[4] -> Pats]]
           : l \in LenTuples}

-----------------------------------------------------------------------------
(* Drop.Init *)

NilSlice == [made |-> FALSE, res |-> <<>>]
NoCode == [compiled |-> FALSE, q |-> <<>>]

\* &Drop{logger: ...}: the zero value the registry's constructor returns
ZeroDrop ==
    [Condition |-> <<>>, TagNames |-> <<>>, ValueNames |-> <<>>,
     Tags |-> <<>>, Values |-> <<>>,
     tagNames |-> NilSlice, valueNames |-> NilSlice,
     tags |-> NilSlice, values |-> NilSlice, code |-> NoCode]

RECURSIVE TrimLeft(_)
TrimLeft(s) == IF s # <<>> /\ Head(s) = " " THEN TrimLeft(Tail(s)) ELSE s
RECURSIVE TrimRight(_)
TrimRight(s) ==
    IF s # <<>> /\ s[Len(s)] = " " THEN TrimRight(SubSeq(s, 1, Len(s) - 1)) ELSE s
\* strings.TrimSpace
TrimSpace(s) == TrimRight(TrimLeft(s))

InSeq(x, s) == \E j \in 1..Len(s) : s[j] = x
\* gojq.Parse: the empty query parses (it is the identity)
ParseOK(c) == ~InSeq("(", c)
\* gojq.Compile
CompileOK(c) == ~InSeq("$", c)

\* regexp.Compile
RegexOK(src) == src # "("
Regex(src) == [src |-> src]

\* a plausible slip: a pattern that does not compile is skipped (best effort)
RECURSIVE CompileListBestEffort(_, _)
CompileListBestEffort(srcs, acc) ==
    IF srcs = <<>> THEN [ok |-> TRUE, res |-> acc]
    ELSE IF ~RegexOK(Head(srcs)) THEN CompileListBestEffort(Tail(srcs), acc)
    ELSE CompileListBestEffort(Tail(srcs), Append(acc, Regex(Head(srcs))))

\* one of Init's four loops: compile in order, return at the first failure.
\* [ok, res]: res holds what was appended before the failure.
RECURSIVE CompileList(_, _)
CompileList(srcs, acc) ==
    IF srcs = <<>> THEN [ok |-> TRUE, res |-> acc]
    ELSE IF ~RegexOK(Head(srcs)) THEN [ok |-> FALSE, res |-> acc]
    ELSE CompileList(Tail(srcs), Append(acc, Regex(Head(srcs))))

Made(r) == [made |-> TRUE, res |-> r.res]

\* Drop.Init on the zero Drop z with configuration c: [d, ret]
InitResult(z, c) ==
    IF ~c.decodable THEN [d |-> z, ret |-> "decode error"]
    ELSE
    LET d0 == [z EXCEPT !.Condition = TrimSpace(c.Condition),
                        !.TagNames = c.TagNames, !.Tags = c.Tags,
                        !.ValueNames = c.ValueNames, !.Values = c.Values]
    IN  IF ~ParseOK(d0.Condition) THEN [d |-> d0, ret |-> "parse error"]
        ELSE IF ~CompileOK(d0.Condition) THEN [d |-> d0, ret |-> "compile error"]
        ELSE
        LET d1 == [d0 EXCEPT !.code = [compiled |-> TRUE, q |-> d0.Condition]]
            tn == CompileList(d1.TagNames, <<>>)
            d2 == [d1 EXCEPT !.tagNames = Made(tn)]
        IN  IF ~tn.ok THEN [d |-> d2, ret |-> "regexp error"]
            ELSE
            LET tg == CompileList(d2.Tags, <<>>)
                d3 == [d2 EXCEPT !.tags = Made(tg)]
            IN  IF ~tg.ok THEN [d |-> d3, ret |-> "regexp error"]
                ELSE
                LET vn == CompileList(d3.ValueNames, <<>>)
                    d4 == [d3 EXCEPT !.valueNames = Made(vn)]
                IN  IF ~vn.ok THEN [d |-> d4, ret |-> "regexp error"]
                    ELSE
                    LET vv == CompileList(d4.Values, <<>>)
                        d5 == [d4 EXCEPT !.values = Made(vv)]
                    IN  IF ~vv.ok THEN [d |-> d5, ret |-> "regexp error"]
                        ELSE [d |-> d5, ret |-> "nil"]

DropInit ==
    /\ pc = "new"
    /\ LET r == InitResult(d, cfg)
       IN  /\ d' = r.d
           /\ ret' = r.ret
           /\ pc' = IF r.ret = "nil" THEN "ready" ELSE "failed"
    /\ UNCHANGED <<cfg, input, es, toDrop, result, log>>
    /\ UNCHANGED concVars

-----------------------------------------------------------------------------
(* Drop.Apply *)

\* (*regexp.Regexp).MatchString
MatchString(re, s) == re.src = s

\* formatters.CheckCondition(d.code, e): "true" | "false" | "error".
\* The query "q" tests the string under the value key "a" (.values.a | test("a")):
\* it fails on an event without that key and on a value that is not a string.
CheckCondition(code, e) ==
    IF "a" \notin DOMAIN e.Values THEN "error"
    ELSE IF e.Values["a"].t # "string" THEN "error"
    ELSE IF e.Values["a"].v = "a" THEN "true" ELSE "false"

\* an inner loop over a compiled list: the patterns that match s, in list order
Matching(res, s) == {j \in 1..Len(res) : MatchString(res[j], s)}
\* the pattern the loop stops at (break at the first match)
FirstMatch(res, s) == res[CHOOSE j \in Matching(res, s) : \A k \in Matching(res, s) : j <= k]

Line(kind, key, res, s) == [kind |-> kind, key |-> key, re |-> FirstMatch(res, s).src]

\* for _, re := range d.valueNames { if re.MatchString(k) {...; break} }
ValueNameLines(dd, e) ==
    {Line("value name", k, dd.valueNames.res, k) :
        k \in {x \in DOMAIN e.Values : Matching(dd.valueNames.res, x) # {}}}

\* a plausible slip: the value is formatted to text instead of type-asserted
ValueLinesCoerced(dd, e) ==
    {Line("value", k, dd.values.res, e.Values[k].v) :
        k \in {x \in DOMAIN e.Values : Matching(dd.values.res, e.Values[x].v) # {}}}

\* for _, re := range d.values { if vs, ok := v.(string); ok { if re.MatchString(vs) {...; break} } }
ValueLines(dd, e) ==
    {Line("value", k, dd.values.res, e.Values[k].v) :
        k \in {x \in DOMAIN e.Values :
                 /\ e.Values[x].t = "string"
                 /\ Matching(dd.values.res, e.Values[x].v) # {}}}

\* for _, re := range d.tagNames { if re.MatchString(k) {...; break} }
TagNameLines(dd, e) ==
    {Line("tag name", k, dd.tagNames.res, k) :
        k \in {x \in DOMAIN e.Tags : Matching(dd.tagNames.res, x) # {}}}

\* for _, re := range d.tags { if re.MatchString(v) {...; break} }
TagLines(dd, e) ==
    {Line("tag", k, dd.tags.res, e.Tags[k]) :
        k \in {x \in DOMAIN e.Tags : Matching(dd.tags.res, e.Tags[x]) # {}}}

\* the two range loops over e.Values and e.Tags: one line, and one append, for
\* every key matched by a name pattern and for every key whose value is matched
RegexLines(dd, e) ==
    ValueNameLines(dd, e) \cup ValueLines(dd, e) \cup TagNameLines(dd, e) \cup TagLines(dd, e)

CondFailed == [kind |-> "condition check failed", key |-> "", re |-> ""]

\* a plausible slip: no continue after the condition's append
ScanEventNoContinue(dd, e) ==
    IF e = Nil THEN [appends |-> 0, lines |-> {}]
    ELSE IF dd.Condition # <<>> /\ CheckCondition(dd.code, e) = "error"
         THEN [appends |-> 0, lines |-> {CondFailed}]
    ELSE IF dd.Condition # <<>> /\ CheckCondition(dd.code, e) = "true"
         THEN [appends |-> 1 + Cardinality(RegexLines(dd, e)), lines |-> RegexLines(dd, e)]
    ELSE [appends |-> Cardinality(RegexLines(dd, e)), lines |-> RegexLines(dd, e)]

\* the body of Apply's loop for one element: [appends, lines], the number of times
\* the element's index is appended to toDrop and the lines logged
ScanEvent(dd, e) ==
    IF e = Nil THEN [appends |-> 0, lines |-> {}]
    ELSE IF dd.Condition # <<>> /\ CheckCondition(dd.code, e) = "error"
         THEN [appends |-> 0, lines |-> {CondFailed}]
    ELSE IF dd.Condition # <<>> /\ CheckCondition(dd.code, e) = "true"
         THEN [appends |-> 1, lines |-> {}]
    ELSE [appends |-> Cardinality(RegexLines(dd, e)), lines |-> RegexLines(dd, e)]

Repeat(x, n) == [k \in 1..n |-> x]

\* the scan: toDrop after the elements batch[from..]
RECURSIVE Scan(_, _, _, _)
Scan(dd, batch, from, acc) ==
    IF from > Len(batch) THEN acc
    ELSE Scan(dd, batch, from + 1,
              acc \o Repeat(from - 1, ScanEvent(dd, batch[from]).appends))

ScanLog(dd, batch) ==
    UNION {{[i |-> i - 1, line |-> l] : l \in ScanEvent(dd, batch[i]).lines} : i \in 1..Len(batch)}

Reverse(s) == [k \in 1..Len(s) |-> s[Len(s) + 1 - k]]

\* a plausible slip: copy(es[dropIndex-1:], es[dropIndex:]), one slot too early
CopyLeftOffByOne(arr, n, dropIndex) ==
    [k \in 1..Len(arr) |-> IF k - 1 >= dropIndex - 1 /\ k - 1 < n - 1 THEN arr[k + 1] ELSE arr[k]]

\* a plausible slip: copy(es[dropIndex+1:], es[dropIndex:]), the operands swapped
CopyRight(arr, n, dropIndex) ==
    [k \in 1..Len(arr) |-> IF k - 1 > dropIndex /\ k - 1 < n THEN arr[k - 1] ELSE arr[k]]

\* copy(es[dropIndex:], es[dropIndex+1:]) on the slice arr[:n]
CopyLeft(arr, n, dropIndex) ==
    [k \in 1..Len(arr) |-> IF k - 1 >= dropIndex /\ k - 1 < n - 1 THEN arr[k + 1] ELSE arr[k]]

\* shift's removal loop over the reversed indexes, from position j: [arr, n], the
\* backing array and the length of the slice
RECURSIVE ShiftLoop(_, _, _, _)
ShiftLoop(arr, n, idx, j) ==
    IF j > Len(idx) THEN [arr |-> arr, n |-> n]
    ELSE IF idx[j] < n THEN ShiftLoop(CopyLeft(arr, n, idx[j]), n - 1, idx, j + 1)
    ELSE [arr |-> arr, n |-> n]

shift(arr, dropIndexes) == ShiftLoop(arr, Len(arr), Reverse(dropIndexes), 1)

\* Drop.Apply(batch...): the index list, the caller's array afterwards, the slice returned
ApplyResult(dd, batch) ==
    LET td == Scan(dd, batch, 1, <<>>)
        sh == shift(batch, td)
    IN  IF Len(td) = 0
        THEN [toDrop |-> td, es |-> batch, result |-> batch]
        ELSE [toDrop |-> td, es |-> sh.arr, result |-> SubSeq(sh.arr, 1, sh.n)]

Apply ==
    /\ pc = "ready"
    /\ \E batch \in Batches :
          LET r == ApplyResult(d, batch)
          IN  /\ input' = batch
              /\ toDrop' = r.toDrop
              /\ es' = r.es
              /\ result' = r.result
              /\ log' = ScanLog(d, batch)
    /\ pc' = "returned"
    /\ UNCHANGED <<cfg, d, ret>>
    /\ UNCHANGED concVars

-----------------------------------------------------------------------------
(* The processor: construction, then a call of Apply *)

Init ==
    /\ pc = "new"
    /\ cfg \in Configs
    /\ d = ZeroDrop
    /\ ret = "none"
    /\ input = <<>>
    /\ es = <<>>
    /\ toDrop = <<>>
    /\ result = <<>>
    /\ log = {}
    /\ cpc = [p \in Procs |-> "idle"]
    /\ cin = [p \in Procs |-> <<>>]
    /\ ci = [p \in Procs |-> 0]
    /\ ctoDrop = [p \in Procs |-> <<>>]
    /\ cres = [p \in Procs |-> <<>>]

Next == DropInit \/ Apply

Spec == Init /\ [][Next]_vars

-----------------------------------------------------------------------------
(* Concurrent calls of Apply on one Matcher Set, each goroutine with a batch  *)
(* of its own.  A step is one iteration of Apply's loop; toDrop, i and es are *)
(* locals of the call.                                                        *)

ConcSlots == {Nil, EvA, EvD}
ConcBatches == SeqsUpTo(ConcSlots, MaxConcBatch)

\* the configurations of the shared Matcher Set
ConcConfigs ==
    {c \in [decodable : {TRUE}, Condition : {<<>>, <<" ", "q", " ">>},
            TagNames : {<<"a">>}, Tags : {<<>>, <<"a">>},
            ValueNames : {<<>>}, Values : {<<>>}] : TRUE}

\* a goroutine calls d.Apply(batch...)
CStart(p) ==
    /\ cpc[p] = "idle"
    /\ \E batch \in ConcBatches : cin' = [cin EXCEPT ![p] = batch]
    /\ ci' = [ci EXCEPT ![p] = 0]
    /\ ctoDrop' = [ctoDrop EXCEPT ![p] = <<>>]
    /\ cpc' = [cpc EXCEPT ![p] = "scan"]
    /\ UNCHANGED <<cres, d>>
    /\ UNCHANGED seqVars

\* a plausible slip: the index list kept in one place for all calls
CScanShared(p) ==
    /\ cpc[p] = "scan"
    /\ ci[p] < Len(cin[p])
    /\ ctoDrop' = [q \in Procs |->
                     ctoDrop[q] \o Repeat(ci[p], ScanEvent(d, cin[p][ci[p] + 1]).appends)]
    /\ ci' = [ci EXCEPT ![p] = @ + 1]
    /\ UNCHANGED <<cpc, cin, cres, d>>
    /\ UNCHANGED seqVars

\* one iteration of for i, e := range es
CScan(p) ==
    /\ cpc[p] = "scan"
    /\ ci[p] < Len(cin[p])
    /\ ctoDrop' = [ctoDrop EXCEPT ![p] =
                     @ \o Repeat(ci[p], ScanEvent(d, cin[p][ci[p] + 1]).appends)]
    /\ ci' = [ci EXCEPT ![p] = @ + 1]
    /\ UNCHANGED <<cpc, cin, cres, d>>
    /\ UNCHANGED seqVars

\* after the loop: return es, or shift(es, toDrop)
CReturn(p) ==
    /\ cpc[p] = "scan"
    /\ ci[p] = Len(cin[p])
    /\ cres' = [cres EXCEPT ![p] =
                  IF Len(ctoDrop[p]) = 0 THEN cin[p]
                  ELSE LET sh == shift(cin[p], ctoDrop[p]) IN SubSeq(sh.arr, 1, sh.n)]
    /\ cpc' = [cpc EXCEPT ![p] = "done"]
    /\ UNCHANGED <<ci, cin, ctoDrop, d>>
    /\ UNCHANGED seqVars

InitConc ==
    /\ pc = "ready"
    /\ cfg \in ConcConfigs
    /\ d = InitResult(ZeroDrop, cfg).d
    /\ ret = "nil"
    /\ input = <<>>
    /\ es = <<>>
    /\ toDrop = <<>>
    /\ result = <<>>
    /\ log = {}
    /\ cpc = [p \in Procs |-> "idle"]
    /\ cin = [p \in Procs |-> <<>>]
    /\ ci = [p \in Procs |-> 0]
    /\ ctoDrop = [p \in Procs |-> <<>>]
    /\ cres = [p \in Procs |-> <<>>]

NextConc == \E p \in Procs : CStart(p) \/ CScan(p) \/ CReturn(p)

SpecConc == InitConc /\ [][NextConc]_vars

-----------------------------------------------------------------------------
(* What the claims speak of, stated on the events and the Matcher Set *)

Returned == pc = "returned"
Range(s) == {s[j] : j \in 1..Len(s)}
Present == {i \in 1..Len(input) : input[i] # Nil}

\* the outcome of the condition on e: "none" when no condition is configured
CondOutcome(e) == IF d.Condition = <<>> THEN "none" ELSE CheckCondition(d.code, e)

AnyMatches(list, s) == \E j \in 1..Len(list.res) : MatchString(list.res[j], s)
ValueNameMatch(e) == \E k \in DOMAIN e.Values : AnyMatches(d.valueNames, k)
ValueMatch(e) ==
    \E k \in DOMAIN e.Values : e.Values[k].t = "string" /\ AnyMatches(d.values, e.Values[k].v)
TagNameMatch(e) == \E k \in DOMAIN e.Tags : AnyMatches(d.tagNames, k)
TagMatch(e) == \E k \in DOMAIN e.Tags : AnyMatches(d.tags, e.Tags[k])
RegexMatch(e) == ValueNameMatch(e) \/ ValueMatch(e) \/ TagNameMatch(e) \/ TagMatch(e)
MatchesCriterion(e) == CondOutcome(e) = "true" \/ RegexMatch(e)

\* index i (1-based position in input) is in the list handed to shift
Marked(i) == \E j \in 1..Len(toDrop) : toDrop[j] = i - 1
Times(i) == Cardinality({j \in 1..Len(toDrop) : toDrop[j] = i - 1})
LinesAt(i) == {l \in log : l.i = i - 1}

RECURSIVE IsSubseq(_, _)
IsSubseq(s, t) ==
    IF s = <<>> THEN TRUE
    ELSE IF t = <<>> THEN FALSE
    ELSE IF Head(s) = Head(t) THEN IsSubseq(Tail(s), Tail(t))
    ELSE IsSubseq(s, Tail(t))

-----------------------------------------------------------------------------
(* Claims *)

\* C1: every present event whose condition evaluates without error and that
\* matches at least one drop criterion is absent from the sequence Apply returns.
C1_MatchingEventsDropped ==
    Returned =>
        \A i \in Present :
            (CondOutcome(input[i]) # "error" /\ MatchesCriterion(input[i]))
                => input[i] \notin Range(result)

NoCondError == \A i \in Present : CondOutcome(input[i]) # "error"

\* C2: the returned sequence holds every element of the input that matches no
\* criterion (absent slots included), and its length is the input's length minus
\* the number of events that match at least one criterion.  Stated for the
\* batches in which no condition evaluation fails (C3 is about the others).
C2_OnlyMatchingRemoved ==
    (Returned /\ NoCondError) =>
        /\ \A i \in 1..Len(input) :
              (input[i] = Nil \/ ~MatchesCriterion(input[i])) => input[i] \in Range(result)
        /\ Len(result) =
              Len(input) - Cardinality({i \in Present : MatchesCriterion(input[i])})

\* C3: an event whose condition evaluation fails is treated like one whose
\* condition is falsy: the regex criteria alone decide whether it is marked.
C3_ErrorLikeFalsy ==
    Returned =>
        \A i \in Present :
            CondOutcome(input[i]) = "error" => (Marked(i) <=> RegexMatch(input[i]))

\* C4 (as claimed): after Apply returns, every slot of the caller's batch holds
\* the element it held before the call.
C4_CallerBatchUntouched == Returned => es = input

FirstDropped == CHOOSE m \in Range(toDrop) : \A x \in Range(toDrop) : m <= x

\* C4 (amended): Apply compacts in place.  The caller's batch keeps its length;
\* when no index is marked it is untouched and returned as it is; otherwise the
\* returned sequence is the leading part of the caller's batch, and the slots
\* before the first marked index hold what they held.
C4_CompactedInPlace ==
    Returned =>
        /\ Len(es) = Len(input)
        /\ toDrop = <<>> => (es = input /\ result = input)
        /\ Len(result) <= Len(es)
        /\ result = SubSeq(es, 1, Len(result))
        /\ toDrop # <<>> => \A k \in 1..FirstDropped : es[k] = input[k]

\* C4 witness: an event in the middle was dropped and the caller's batch changed
C4_Witness ==
    /\ Returned
    /\ Len(input) = 3
    /\ Len(result) = 2
    /\ es # input
    /\ es[1] = input[1]

\* C5: the returned sequence is a subsequence of the input batch: its elements
\* are elements of the input, none more often than in the input, in input order.
C5_ResultIsSubsequence == Returned => IsSubseq(result, input)

\* C5 witness: the first of three distinct elements was removed, two survive in order
C5_Witness ==
    /\ Returned
    /\ Len(input) = 3
    /\ input[1] # input[2] /\ input[2] # input[3] /\ input[1] # input[3]
    /\ result = <<input[2], input[3]>>

\* C7: an event whose condition is truthy is marked once and no regex criterion
\* is evaluated for it; with a falsy condition or none, the regex criteria are
\* evaluated and alone decide whether the event is marked.
C7_ConditionShortCircuit ==
    Returned =>
        \A i \in Present :
            /\ CondOutcome(input[i]) = "true" => (Times(i) = 1 /\ LinesAt(i) = {})
            /\ CondOutcome(input[i]) \in {"none", "false"} =>
                  /\ Marked(i) <=> RegexMatch(input[i])
                  /\ ValueNameMatch(input[i]) <=> \E l \in LinesAt(i) : l.line.kind = "value name"
                  /\ ValueMatch(input[i]) <=> \E l \in LinesAt(i) : l.line.kind = "value"
                  /\ TagNameMatch(input[i]) <=> \E l \in LinesAt(i) : l.line.kind = "tag name"
                  /\ TagMatch(input[i]) <=> \E l \in LinesAt(i) : l.line.kind = "tag"

\* C7 witness: one batch with an event dropped by the condition while no pattern
\* matches it, and an event with a falsy condition dropped by a pattern
C7_Witness ==
    /\ Returned
    /\ \E i \in Present : CondOutcome(input[i]) = "true" /\ ~RegexMatch(input[i]) /\ Marked(i)
    /\ \E i \in Present : CondOutcome(input[i]) = "false" /\ RegexMatch(input[i]) /\ Marked(i)

NoStringValue(e) == \A k \in DOMAIN e.Values : e.Values[k].t # "string"
TextMatch(e) == \E k \in DOMAIN e.Values : AnyMatches(d.values, e.Values[k].v)

\* C8: the value patterns mark an event only on account of a string-typed value
\* that one of them matches; an event without string values is never marked by them.
C8_NonStringImmunity ==
    Returned =>
        /\ \A l \in log :
              l.line.kind = "value" =>
                  LET v == input[l.i + 1].Values[l.line.key]
                  IN  v.t = "string" /\ MatchString(Regex(l.line.re), v.v)
        /\ \A i \in Present :
              (/\ NoStringValue(input[i])
               /\ CondOutcome(input[i]) # "true"
               /\ ~ValueNameMatch(input[i]) /\ ~TagNameMatch(input[i]) /\ ~TagMatch(input[i]))
                  => ~Marked(i)

\* C8 witness: an event whose only value is a number whose text a value pattern
\* matches went through Apply unmarked
C8_Witness ==
    /\ Returned
    /\ \E i \in Present :
          /\ DOMAIN input[i].Values # {}
          /\ NoStringValue(input[i])
          /\ TextMatch(input[i])
          /\ CondOutcome(input[i]) = "none"
          /\ ~Marked(i)
          /\ input[i] \in Range(result)

\* C10: the index list handed to shift is strictly ascending (no index twice)
\* and every index in it is smaller than the batch length.
C10_ToDropStrictlyAscending ==
    Returned =>
        /\ \A j \in 1..Len(toDrop) : toDrop[j] < Len(input)
        /\ \A j, k \in 1..Len(toDrop) : j < k => toDrop[j] < toDrop[k]

InitReturned == pc # "new"
CondBad(c) == ~ParseOK(TrimSpace(c)) \/ ~CompileOK(TrimSpace(c))
BadAt(srcs) == {j \in 1..Len(srcs) : ~RegexOK(srcs[j])}
AnyBadPattern ==
    BadAt(cfg.TagNames) \cup BadAt(cfg.Tags) \cup BadAt(cfg.ValueNames) \cup BadAt(cfg.Values) # {}

\* C9 (as claimed): Init returns an error if and only if the condition fails to
\* parse or compile or a pattern of the four lists fails to compile.
C9_ErrorIffBadConditionOrPattern ==
    InitReturned => (ret # "nil" <=> (CondBad(cfg.Condition) \/ AnyBadPattern))

\* list srcs was compiled whole, in order
Whole(list, srcs) ==
    /\ list.made
    /\ Len(list.res) = Len(srcs)
    /\ \A j \in 1..Len(srcs) : list.res[j] = Regex(srcs[j])
\* the loop over srcs stopped at its first bad pattern
Stopped(list, srcs) ==
    /\ list.made
    /\ BadAt(srcs) # {}
    /\ Len(list.res) + 1 \in BadAt(srcs)
    /\ \A j \in 1..Len(list.res) : RegexOK(srcs[j]) /\ list.res[j] = Regex(srcs[j])

\* C9 (amended): Init returns an error if and only if the configuration fails to
\* decode, the condition fails to parse or compile, or a pattern of the four lists
\* fails to compile.  It stops at the first failure: nothing after it is compiled.
\* On success the condition program and the four lists are compiled, each list
\* with the length and order of its configured list.
C9_InitFailFast ==
    InitReturned =>
        /\ ret # "nil" <=> (~cfg.decodable \/ CondBad(cfg.Condition) \/ AnyBadPattern)
        /\ ret = "nil" =>
              /\ d.code.compiled
              /\ Whole(d.tagNames, cfg.TagNames) /\ Whole(d.tags, cfg.Tags)
              /\ Whole(d.valueNames, cfg.ValueNames) /\ Whole(d.values, cfg.Values)
        /\ ret \in {"decode error", "parse error", "compile error"} =>
              /\ ~d.code.compiled
              /\ ~d.tagNames.made /\ ~d.tags.made /\ ~d.valueNames.made /\ ~d.values.made
        /\ ret = "regexp error" =>
              \/ Stopped(d.tagNames, cfg.TagNames)
                   /\ ~d.tags.made /\ ~d.valueNames.made /\ ~d.values.made
              \/ Whole(d.tagNames, cfg.TagNames) /\ Stopped(d.tags, cfg.Tags)
                   /\ ~d.valueNames.made /\ ~d.values.made
              \/ Whole(d.tagNames, cfg.TagNames) /\ Whole(d.tags, cfg.Tags)
                   /\ Stopped(d.valueNames, cfg.ValueNames) /\ ~d.values.made
              \/ Whole(d.tagNames, cfg.TagNames) /\ Whole(d.tags, cfg.Tags)
                   /\ Whole(d.valueNames, cfg.ValueNames) /\ Stopped(d.values, cfg.Values)

\* C9 witness: Init failed on the second pattern of tag-names, after compiling
\* the first, and went no further
C9_Witness ==
    /\ pc = "failed"
    /\ ret = "regexp error"
    /\ Len(cfg.TagNames) = 2
    /\ Len(d.tagNames.res) = 1
    /\ ~d.tags.made

\* C6: no step of Apply changes a field of the Matcher Set, and under every
\* interleaving of concurrent calls on one Matcher Set each call returns what
\* it returns when it runs alone on its batch.
C6_ConcurrentApply ==
    [][/\ d' = d
       /\ \A p \in Procs :
             cpc'[p] = "done" => cres'[p] = ApplyResult(d, cin'[p]).result]_vars

\* C6 witness: one call has returned a compacted batch while the other, on another
\* batch, is in the middle of its scan with an index already collected
C6_Witness ==
    /\ cpc[1] = "done"
    /\ Len(cres[1]) < Len(cin[1])
    /\ cpc[2] = "scan"
    /\ cin[2] # cin[1]
    /\ ci[2] = 1
    /\ ctoDrop[2] # <<>>

====
